---------------------------- MODULE Spec2Model ----------------------------
(***************************************************************************)
(* State-machine model of script/grade.cjs, the grading harness: it        *)
(* launches the student application, sniffs its port from the startup      *)
(* logs, scans ports for a base URL, runs seven HTTP probes in five        *)
(* groups, computes the score, writes the report and kills the child.      *)
(*                                                                         *)
(* One action is one synchronous stretch of the script between two awaits  *)
(* (or one event of the environment: the child printing, the child         *)
(* exiting, response headers arriving, a request failing, the request      *)
(* timer firing, a response body arriving).                                *)
(***************************************************************************)
EXTENDS Integers, Sequences, FiniteSets, TLC

(***************************************************************************)
(* Program constants.                                                      *)
(***************************************************************************)
STARTUP_TIMEOUT_MS == 12000
SLEEP_MS == 250
SCAN_BASE == 3000
SCAN_LEN == 24

\* Array.from({ length: 24 }, (_, i) => 3000 + i)
SCAN_PORTS == [i \in 1..SCAN_LEN |-> SCAN_BASE + (i - 1)]

ENTRY_CANDIDATES ==
    << "server.js", "app.js", "index.js", "main.js",
       "src/server.js", "src/app.js", "src/index.js" >>

\* JavaScript's null for a port, a child, a base URL.
Null == -1

(***************************************************************************)
(* Bounds of the model.                                                    *)
(***************************************************************************)
\* Chunks of output the child prints while the harness sniffs its logs.
MaxChunks == 1

(***************************************************************************)
(* Helpers.                                                                *)
(***************************************************************************)
Range(s) == {s[i] : i \in DOMAIN s}

Min(a, b) == IF a < b THEN a ELSE b
Max(a, b) == IF a > b THEN a ELSE b

\* Math.max(a, Math.min(b, n))
clamp(n, a, b) == Max(a, Min(b, n))


(***************************************************************************)
(* The world outside the harness.                                          *)
(*   files     the entry files that exist in LAB_DIR                       *)
(*   pkg       LAB_DIR/package.json: "absent", "invalid" (JSON.parse       *)
(*             throws), "nostart" (no scripts.start) or "start"            *)
(*   platform  process.platform: "posix" or "win32"                        *)
(*   late      Date.now() > DEADLINE                                       *)
(*   exits     whether the child ends while the harness waits for it       *)
(*   script    the output the child has still to print, chunk by chunk     *)
(*   servers   what answers on each port of 127.0.0.1: a server kind       *)
(*   writable  whether the report files can be written                     *)
(*   npm       whether the package manager's command can be started        *)
(***************************************************************************)
VARIABLES files, pkg, platform, late, writable, exits, script, servers, npm

(***************************************************************************)
(* The harness.                                                            *)
(*   pc            where the main routine is                               *)
(*   usedCommand   startStudentApp's usedCommand, word by word             *)
(*   child         the command line spawned (<< >>: child is null)         *)
(*   spawnCount    calls of spawn() that started the student app           *)
(*   stdoutBuf, stderrBuf  the captured output                             *)
(*   exitCode      child.exitCode (Null until the child exits, and after   *)
(*                 a signal ended it)                                      *)
(*   elapsed       Date.now() - start while startStudentApp runs (0 after) *)
(*   detectedPort  the port sniffed from the logs (Null: none)             *)
(***************************************************************************)
VARIABLES pc, usedCommand, child, spawnCount, stdoutBuf, stderrBuf,
          exitCode, elapsed, detectedPort

launchVars == << usedCommand, child, spawnCount, stdoutBuf, stderrBuf,
                 exitCode, elapsed, detectedPort >>
worldVars == << files, pkg, platform, late, writable, exits, servers, npm >>

(***************************************************************************)
(* Output chunks.  A chunk is a piece of text the child writes: pat is the *)
(* port pattern its text matches (0: none) and digits the decimal digits   *)
(* the pattern's capture group takes.                                      *)
(*   1  /http:\/\/(?:localhost|127\.0\.0\.1):(\d{2,5})/i                   *)
(*   2  /listening(?:\s+on)?\s+port\s+(\d{2,5})/i                          *)
(*   3  /\bPORT(?:=|:)\s*(\d{2,5})\b/i                                     *)
(***************************************************************************)
portRegexes == << 1, 2, 3 >>

Chunk(p, d) == [pat |-> p, digits |-> d]

RECURSIVE Number(_)
\* Number(m[1]) for a string of decimal digits.
Number(d) ==
    IF d = << >> THEN 0
    ELSE 10 * Number(SubSeq(d, 1, Len(d) - 1)) + d[Len(d)]

\* logs.match(rx): the first chunk of the text the pattern matches, 0 if none.
MatchAt(rx, logs) ==
    LET hits == {i \in DOMAIN logs : logs[i].pat = rx}
    IN  IF hits = {} THEN 0 ELSE CHOOSE i \in hits : \A j \in hits : i <= j

RECURSIVE ScanFrom(_, _, _)
\* for (const rx of portRegexes) { m = logs.match(rx); if (m && m[1]) {...; break} }
ScanFrom(k, logs, prev) ==
    IF k > Len(portRegexes) THEN prev
    ELSE IF MatchAt(portRegexes[k], logs) # 0
         THEN Number(logs[MatchAt(portRegexes[k], logs)].digits)
         ELSE ScanFrom(k + 1, logs, prev)

\* One pass of the loop body over stdoutBuf + "\n" + stderrBuf.
ScanLogs(out, err, prev) == ScanFrom(1, out \o err, prev)

\* Truthy with only null falsy.
TruthyNotNull(port) == port # Null

\* if (detectedPort): null and 0 are falsy.
Truthy(port) == port # Null /\ port # 0

(***************************************************************************)
(* startStudentApp: the choice of the launch strategy.                     *)
(***************************************************************************)
\* FindEntry over the list without its first name.
FindEntryRest(fs) ==
    LET hits == {i \in DOMAIN ENTRY_CANDIDATES : i > 1 /\ ENTRY_CANDIDATES[i] \in fs}
    IN  IF hits = {} THEN ""
        ELSE ENTRY_CANDIDATES[CHOOSE i \in hits : \A j \in hits : i <= j]

\* ENTRY_CANDIDATES.find(p => fs.existsSync(path.join(LAB_DIR, p)))
FindEntry(fs) ==
    LET hits == {i \in DOMAIN ENTRY_CANDIDATES : ENTRY_CANDIDATES[i] \in fs}
    IN  IF hits = {} THEN ""
        ELSE ENTRY_CANDIDATES[CHOOSE i \in hits : \A j \in hits : i <= j]

\* hasPkg && (() => { try { ...pkg.scripts && pkg.scripts.start } catch { return false } })()
HasStart(p) == p = "start"

NoEntryCommand == << "(no entry found)" >>

\* LaunchPlan with the start script tried before the entry files.
LaunchPlanStartFirst(fs, p, plat) ==
    IF HasStart(p)
    THEN [used |-> << "npm", "start" >>,
          spawn |-> << IF plat = "win32" THEN "npm.cmd" ELSE "npm", "start" >>,
          branch |-> "start"]
    ELSE IF FindEntry(fs) # ""
    THEN [used |-> << "node", FindEntry(fs) >>,
          spawn |-> << "node", FindEntry(fs) >>, branch |-> "entry"]
    ELSE [used |-> NoEntryCommand, spawn |-> << >>, branch |-> "none"]

\* The command spawned and usedCommand, by the if / else-if / else chain.
LaunchPlan(fs, p, plat) ==
    IF FindEntry(fs) # ""
    THEN [used |-> << "node", FindEntry(fs) >>,
          spawn |-> << "node", FindEntry(fs) >>, branch |-> "entry"]
    ELSE IF HasStart(p)
    THEN [used |-> << "npm", "start" >>,
          spawn |-> << IF plat = "win32" THEN "npm.cmd" ELSE "npm", "start" >>,
          branch |-> "start"]
    ELSE IF "server.js" \in fs
    THEN [used |-> << "node", "server.js" >>,
          spawn |-> << "node", "server.js" >>, branch |-> "lastResort"]
    ELSE [used |-> NoEntryCommand, spawn |-> << >>, branch |-> "none"]

(***************************************************************************)
(* The servers of the world.  A port no server listens on refuses the      *)
(* connection.  A server's kind says what it may do with a request:        *)
(*   "app"        the application the lab asks for                         *)
(*   "foreign"    an unrelated server: 404 and an HTML body for every path *)
(*   "nocontent"  answers 204 to every path, with an empty body            *)
(*   "moved"      answers 301 (no Location) to every path                  *)
(*   "broken"     answers 500 and an HTML body to every path               *)
(*   "silent"     accepts the connection and never answers                 *)
(*   "stall"      sends 200 and headers, and never finishes the body       *)
(*   "lenient"    an application that validates nothing: 200 to every path, *)
(*                and the success body where an error body is due          *)
(*   "flaky"      answers 200 to the port scan, and then each probe in any *)
(*                way: any status and body, a failure, or no answer        *)
(***************************************************************************)
Statuses == {200, 204, 301, 400, 404, 500}

KindOf(port) == IF port \in DOMAIN servers THEN servers[port] ELSE "none"

\* A JSON value: an object is a function from its keys to typed values.
Str(v)  == [type |-> "string",  val |-> v]
Num(v)  == [type |-> "number",  val |-> v]
Bool(v) == [type |-> "boolean", val |-> v]
JsonObject(o) == [parse |-> "ok", kind |-> "object", obj |-> o]
JsonNull      == [parse |-> "ok", kind |-> "null",   obj |-> [x \in {} |-> Str("")]]
NotJson       == [parse |-> "throws", kind |-> "text", obj |-> [x \in {} |-> Str("")]]

EchoOkBody   == JsonObject([ok |-> Bool("true"), name |-> Str("Ali"),
                            age |-> Num("22"), msg |-> Str("hi")])
EchoNoMsgBody == JsonObject([ok |-> Bool("true"), name |-> Str("Ali"),
                             age |-> Num("22"), msg |-> Num("5")])
ErrorBody    == JsonObject([ok |-> Bool("false"), error |-> Str("missing age")])
ProfileBody  == JsonObject([ok |-> Bool("true"), fullName |-> Str("Jack Black")])
UserBody     == JsonObject([ok |-> Bool("true"), userId |-> Num("42")])
RootBody     == JsonObject([ok |-> Bool("true")])

AllBodies == {NotJson, JsonNull, EchoOkBody, EchoNoMsgBody, ErrorBody,
              ProfileBody, UserBody, RootBody}

(***************************************************************************)
(* The seven probes, in the order the checks issue them.                   *)
(*   group   the TODO whose score the probe feeds                          *)
(*   expect  the status that earns correctness                             *)
(*   comp, corr, qual   what the probe adds to each band                   *)
(*   shape   the validator applied to the parsed body                      *)
(*   okReach     a note is pushed when the response arrives                *)
(*   warnStatus  a warning is pushed when the status is not the expected   *)
(*   last    the probe ends its check function (the Math.min lines run)    *)
(***************************************************************************)
Probe(g, path, e, c, r, q, sh, okr, ws) ==
    [group |-> g, path |-> path, expect |-> e, comp |-> c, corr |-> r,
     qual |-> q, shape |-> sh, okReach |-> okr, warnStatus |-> ws]

\* Probes with checkTodo1 setting quality to 8 instead of 4.
ProbesTypo ==
    << Probe(1, "/", 200, 8, 4, 8, "json", TRUE, TRUE),
       Probe(2, "/echo?name=Ali&age=22", 200, 4, 2, 2, "echo", FALSE, FALSE),
       Probe(2, "/echo?name=Ali", 400, 4, 2, 2, "error", FALSE, FALSE),
       Probe(3, "/profile/Jack/Black", 200, 8, 4, 4, "profile", TRUE, FALSE),
       Probe(5, "/users/42", 200, 8, 4, 4, "user", TRUE, FALSE),
       Probe(4, "/users/abc", 400, 4, 2, 2, "error", FALSE, FALSE),
       Probe(4, "/users/-5", 400, 4, 2, 2, "error", FALSE, FALSE) >>

Probes ==
    << Probe(1, "/", 200, 8, 4, 4, "json", TRUE, TRUE),
       Probe(2, "/echo?name=Ali&age=22", 200, 4, 2, 2, "echo", FALSE, FALSE),
       Probe(2, "/echo?name=Ali", 400, 4, 2, 2, "error", FALSE, FALSE),
       Probe(3, "/profile/Jack/Black", 200, 8, 4, 4, "profile", TRUE, FALSE),
       Probe(5, "/users/42", 200, 8, 4, 4, "user", TRUE, FALSE),
       Probe(4, "/users/abc", 400, 4, 2, 2, "error", FALSE, FALSE),
       Probe(4, "/users/-5", 400, 4, 2, 2, "error", FALSE, FALSE) >>

NumProbes == Len(Probes)
Groups == 1..5

\* What the application the lab asks for answers to a probe.
AppBody(i) ==
    CASE Probes[i].shape = "json"    -> RootBody
      [] Probes[i].shape = "echo"    -> EchoOkBody
      [] Probes[i].shape = "error"   -> ErrorBody
      [] Probes[i].shape = "profile" -> ProfileBody
      [] Probes[i].shape = "user"    -> UserBody

\* The statuses a server of kind k may answer to probe i (0: the root path of
\* the port scan).
StatusesOf(k, i) ==
    CASE k = "app"       -> {IF i = 0 THEN 200 ELSE Probes[i].expect}
      [] k = "foreign"   -> {404}
      [] k = "nocontent" -> {204}
      [] k = "moved"     -> {301}
      [] k = "broken"    -> {500}
      [] k = "stall"     -> {200}
      [] k = "lenient"   -> {200}
      [] k = "flaky"     -> IF i = 0 THEN {200} ELSE Statuses
      [] OTHER           -> {}

\* The bodies it may send after the headers.
BodiesOf(k, i) ==
    CASE k = "app"       -> {AppBody(i)}
      [] k = "foreign"   -> {NotJson}
      [] k = "nocontent" -> {NotJson}
      [] k = "moved"     -> {NotJson}
      [] k = "broken"    -> {NotJson}
      [] k = "lenient"   -> IF i # 0 /\ Probes[i].shape = "error"
                            THEN {RootBody} ELSE {AppBody(i)}
      [] k = "flaky"     -> AllBodies
      [] OTHER           -> {}

\* The request may fail at once (connection refused, reset, DNS, protocol).
MayFail(k, i) == k = "none" \/ (k = "flaky" /\ i # 0)
\* The request may get no answer at all.
MayHang(k, i) == k = "silent" \/ (k = "flaky" /\ i # 0)

\* The Math.min lines that end checkTodo2 (after probe 3) and checkTodo4and5
\* (after probe 7): the groups whose three bands they cap.
ClampAfter(i) == IF i = 3 THEN {2} ELSE IF i = 7 THEN {4, 5} ELSE {}

(***************************************************************************)
(* The harness, continued.                                                 *)
(*   candidates, idx   findBaseUrl's candidate list and its position       *)
(*   baseUrl       the port of the base URL found (Null: null)             *)
(*   fst           the request in flight: "idle", "inflight" (fetch        *)
(*                 awaited), "aborted" (controller.abort() called, the     *)
(*                 rejection not yet delivered), "body" (res.clone()       *)
(*                 .json() awaited)                                        *)
(*   timerArmed    safeFetch's timer is pending                            *)
(*   aborted       controller.signal.aborted of the current request        *)
(*   lastRet       how safeFetch last returned                             *)
(*   requests      every request issued so far, in order                   *)
(*   scanned       the answers findBaseUrl got, in order: the port and     *)
(*                 res.status (0: safeFetch returned null)                 *)
(*   pi            the probe being run (0: none)                           *)
(*   t             the five TODO scores t1..t5                             *)
(*   p, labPoints, subPoints, totalPoints   the report's scoring           *)
(*   reportWritten grade.json and grade.txt are written                    *)
(*   killLog       the termination attempts made, in order                 *)
(*   alive         the processes of the launch still running               *)
(*   harnessExit   process.exitCode of the harness (0: unset)              *)
(***************************************************************************)
VARIABLES candidates, idx, baseUrl, fst, timerArmed, aborted, lastRet,
          requests, scanned, pi, t, p, labPoints, subPoints, totalPoints,
          reportWritten, killLog, alive, harnessExit

fetchVars == << fst, timerArmed, aborted, lastRet, requests >>
scanVars  == << candidates, idx, baseUrl, scanned >>
scoreVars == << p, labPoints, subPoints, totalPoints, reportWritten >>
endVars   == << killLog, harnessExit >>

vars == << files, pkg, platform, late, writable, exits, script, servers, npm,
           pc, usedCommand, child, spawnCount, stdoutBuf, stderrBuf,
           exitCode, elapsed, detectedPort,
           candidates, idx, baseUrl, fst, timerArmed, aborted, lastRet,
           requests, scanned, pi, t, p, labPoints, subPoints, totalPoints,
           reportWritten, killLog, alive, harnessExit >>

(***************************************************************************)
(* Scores.                                                                 *)
(***************************************************************************)
makeTodoScore == [completeness |-> 0, correctness |-> 0, quality |-> 0,
                  notes |-> << >>]

bandPoints(s) ==
    clamp(s.completeness, 0, 8) + clamp(s.correctness, 0, 4)
        + clamp(s.quality, 0, 4)

\* pushOK, pushWARN, pushX and a bare notes.push: a note is kept by its tag.
pushOK(s)   == [s EXCEPT !.notes = Append(@, "OK")]
pushWARN(s) == [s EXCEPT !.notes = Append(@, "WARN")]
pushX(s)    == [s EXCEPT !.notes = Append(@, "X")]
pushPlain(s) == [s EXCEPT !.notes = Append(@, "PLAIN")]

\* The shape validators of the checks, applied to the parsed body j.
JsTruthy(j) == j.kind # "null"
Has(j, k) == k \in DOMAIN j.obj
Is(j, k, v) == Has(j, k) /\ j.obj[k] = v
TypeOf(j, k) == IF Has(j, k) THEN j.obj[k].type ELSE "undefined"

\* ShapeOk with the echo validator also asking for a string age.
ShapeOkAgeString(shape, j) ==
    CASE shape = "json"    -> TRUE
      [] shape = "echo"    -> /\ JsTruthy(j) /\ Is(j, "ok", Bool("true"))
                              /\ Has(j, "name") /\ TypeOf(j, "age") = "string"
                              /\ TypeOf(j, "msg") = "string"
      [] shape = "error"   -> /\ JsTruthy(j) /\ Is(j, "ok", Bool("false"))
                              /\ TypeOf(j, "error") = "string"
      [] shape = "profile" -> /\ JsTruthy(j) /\ Is(j, "ok", Bool("true"))
                              /\ TypeOf(j, "fullName") = "string"
      [] shape = "user"    -> /\ JsTruthy(j) /\ Is(j, "ok", Bool("true"))
                              /\ Has(j, "userId")

ShapeOk(shape, j) ==
    CASE shape = "json"    -> TRUE
      [] shape = "echo"    -> /\ JsTruthy(j) /\ Is(j, "ok", Bool("true"))
                              /\ Has(j, "name") /\ Has(j, "age")
                              /\ TypeOf(j, "msg") = "string"
      [] shape = "error"   -> /\ JsTruthy(j) /\ Is(j, "ok", Bool("false"))
                              /\ TypeOf(j, "error") = "string"
      [] shape = "profile" -> /\ JsTruthy(j) /\ Is(j, "ok", Bool("true"))
                              /\ TypeOf(j, "fullName") = "string"
      [] shape = "user"    -> /\ JsTruthy(j) /\ Is(j, "ok", Bool("true"))
                              /\ Has(j, "userId")

\* OnResponse with completeness granted only for the expected status.
OnResponseStatusGated(s, pr, status) ==
    LET s2 == IF pr.okReach THEN pushOK(s) ELSE s
    IN  IF status = pr.expect
        THEN pushOK([s2 EXCEPT !.completeness = @ + pr.comp,
                               !.correctness = @ + pr.corr])
        ELSE IF pr.warnStatus THEN pushWARN(s2) ELSE s2

\* if (res) { completeness (+)= comp; if (res.status === expect) {...} else {...}
OnResponse(s, pr, status) ==
    LET s1 == [s EXCEPT !.completeness = @ + pr.comp]
        s2 == IF pr.okReach THEN pushOK(s1) ELSE s1
    IN  IF status = pr.expect
        THEN pushOK([s2 EXCEPT !.correctness = @ + pr.corr])
        ELSE IF pr.warnStatus THEN pushWARN(s2) ELSE s2

\* try { const j = await res.clone().json(); if (shape) {...} else {...} } catch {...}
OnBody(s, pr, body) ==
    IF body.parse = "ok" /\ ShapeOk(pr.shape, body)
    THEN pushOK([s EXCEPT !.quality = @ + pr.qual])
    ELSE pushWARN(s)

\* } else { pushX(...) }
OnUnreachable(s) == pushX(s)

\* ClampGroups with s5.quality capped by s4.quality.
ClampGroupsCrossed(tt, gs) ==
    [g \in Groups |->
        IF g \in gs
        THEN [tt[g] EXCEPT !.completeness = Min(8, @),
                           !.correctness = Min(4, @),
                           !.quality = Min(4, tt[IF g = 5 THEN 4 ELSE g].quality)]
        ELSE tt[g]]

\* s.completeness = Math.min(8, s.completeness); ... for the groups of gs.
ClampGroups(tt, gs) ==
    [g \in Groups |->
        IF g \in gs
        THEN [tt[g] EXCEPT !.completeness = Min(8, @),
                           !.correctness = Min(4, @),
                           !.quality = Min(4, @)]
        ELSE tt[g]]

\* LabPoints without the someProgress test.
LabPointsNoProgress(pp) ==
    LET raw == pp[1] + pp[2] + pp[3] + pp[4] + pp[5]
    IN  IF raw < 60 THEN 60 ELSE raw

\* LabPoints without the floor.
LabPointsNoFloor(pp) == pp[1] + pp[2] + pp[3] + pp[4] + pp[5]

\* let labPoints = p1 + ... + p5; if (someProgress && labPoints < 60) labPoints = 60
LabPoints(pp) ==
    LET raw == pp[1] + pp[2] + pp[3] + pp[4] + pp[5]
        someProgress == \E g \in Groups : pp[g] > 0
    IN  IF someProgress /\ raw < 60 THEN 60 ELSE raw

\* isLate ? (isLate() ? 10 : 20) : 20
SubPoints(isLate) == IF isLate THEN 10 ELSE 20

(***************************************************************************)
(* safeFetch.                                                              *)
(***************************************************************************)
\* SafeFetchReturn with clearTimeout(t) after the fetch instead of in finally.
SafeFetchReturnNoFinally(cause) ==
    [value |-> IF cause = "headers" THEN "res" ELSE "null",
     threw |-> FALSE, cleared |-> cause = "headers"]

\* How safeFetch ends once fetch() settled: with the response (cause
\* "headers"), or through catch { return null } when fetch() rejected (cause
\* "error", or "abort" after the timer aborted it); finally { clearTimeout(t) }.
SafeFetchReturn(cause) ==
    [value |-> IF cause = "headers" THEN "res" ELSE "null",
     threw |-> FALSE, cleared |-> TRUE]

\* res.ok
ResOk(status) == 200 <= status /\ status <= 299

\* Accepts with any response taken: if (res).
AcceptsAnyResponse(value, status) == value = "res"

\* Accepts without the 404 case: if (res && res.ok).
AcceptsOkOnly(value, status) == value = "res" /\ ResOk(status)

\* if (res && (res.ok || res.status === 404))
Accepts(value, status) == value = "res" /\ (ResOk(status) \/ status = 404)

\* Candidates without the includes() test.
CandidatesNoDedupe(detected) ==
    (IF Truthy(detected) THEN << detected >> ELSE << >>) \o SCAN_PORTS

\* findBaseUrl's candidate list.
Candidates(detected) ==
    LET first == IF Truthy(detected) THEN << detected >> ELSE << >>
    IN  first \o SelectSeq(SCAN_PORTS, LAMBDA q : q \notin Range(first))

(***************************************************************************)
(* Processes.  spawn() is called without detached: the child stays in the  *)
(* harness's process group and leads no group of its own.  With npm start  *)
(* the child is npm, and the server is a process npm starts.               *)
(***************************************************************************)
Detached == FALSE

\* The command is one spawn() can start: node is process.execPath, the
\* package manager is looked up on the PATH.
CanStart(cmd) == cmd[1] = "node" \/ npm

\* The spawn() of the launch failed: the child object has no pid, and its
\* 'error' event, which nothing listens to, is due on the next tick.
SpawnFailed == child # << >> /\ ~CanStart(child)

Started(cmd) ==
    IF cmd = << >> \/ ~CanStart(cmd) THEN {}
    ELSE IF cmd[1] \in {"npm", "npm.cmd"} THEN {"child", "server"}
    ELSE {"child"}

\* The processes that process.kill(-child.pid) signals.
GroupMembers(running) == IF Detached THEN running ELSE {}

ExitCodes == {0, 1}

(***************************************************************************)
(* Steps shared by the actions.                                            *)
(***************************************************************************)
\* safeFetch(url) for probe i (0: the root path of the port scan): a new
\* AbortController, the timer set, fetch() called.
StartFetch(port, i) ==
    /\ fst' = "inflight"
    /\ timerArmed' = TRUE
    /\ aborted' = FALSE
    /\ requests' = Append(requests, [port |-> port, probe |-> i,
                                      path |-> IF i = 0 THEN "/" ELSE Probes[i].path])

\* No request is awaited any more.
NoFetch(armed) ==
    /\ fst' = "idle"
    /\ timerArmed' = armed
    /\ UNCHANGED << aborted, requests >>

\* findBaseUrl(detected) up to its first await.
BeginFindBaseUrl(detected) ==
    /\ candidates' = Candidates(detected)
    /\ idx' = 1
    /\ baseUrl' = Null
    /\ scanned' = scanned
    /\ StartFetch(Candidates(detected)[1], 0)
    /\ pc' = "discover"

\* The port the request in flight goes to, and the kind of server there.
CurrentPort == requests[Len(requests)].port
CurrentKind == KindOf(CurrentPort)

(***************************************************************************)
(* startStudentApp.                                                        *)
(***************************************************************************)
\* Lines 97-160: the strategy is chosen and the child spawned; the first
\* pass of the loop finds the buffers empty and goes to sleep.  With no
\* entry the function returns at once and main goes on to findBaseUrl.
Launch ==
    /\ pc = "start"
    /\ LET plan == LaunchPlan(files, pkg, platform)
       IN  /\ usedCommand' = plan.used
           /\ child' = plan.spawn
           /\ alive' = Started(plan.spawn)
           /\ IF plan.spawn = << >>
              THEN /\ spawnCount' = spawnCount
                   /\ stderrBuf' = << Chunk(0, << >>) >>
                   /\ BeginFindBaseUrl(Null)
                   /\ lastRet' = lastRet
              ELSE /\ spawnCount' = spawnCount + 1
                   /\ stderrBuf' = << >>
                   /\ pc' = "sniff"
                   /\ UNCHANGED << scanVars, fetchVars >>
    /\ stdoutBuf' = << >>
    /\ elapsed' = 0
    /\ detectedPort' = Null
    /\ exitCode' = Null
    /\ UNCHANGED << worldVars, script, pi, t, scoreVars, endVars >>

\* child.stdout.on("data", ...) / child.stderr.on("data", ...)
ChildPrints ==
    /\ pc = "sniff"
    /\ ~SpawnFailed
    /\ script # << >>
    /\ IF script[1].stream = "stdout"
       THEN /\ stdoutBuf' = Append(stdoutBuf, script[1].chunk)
            /\ stderrBuf' = stderrBuf
       ELSE /\ stderrBuf' = Append(stderrBuf, script[1].chunk)
            /\ stdoutBuf' = stdoutBuf
    /\ script' = Tail(script)
    /\ UNCHANGED << worldVars, pc, usedCommand, child, spawnCount, exitCode,
                    elapsed, detectedPort, scanVars, fetchVars, pi, t,
                    scoreVars, endVars, alive >>

\* The child ends: child.exitCode is set to its exit code, or stays null
\* when a signal ended it (child.signalCode is set instead).
ChildExits ==
    /\ pc = "sniff"
    /\ exits
    /\ "child" \in alive
    /\ \E c \in ExitCodes \cup {Null} : exitCode' = c
    /\ alive' = {}
    /\ UNCHANGED << worldVars, script, pc, usedCommand, child, spawnCount,
                    stdoutBuf, stderrBuf, elapsed, detectedPort, scanVars,
                    fetchVars, pi, t, scoreVars, endVars >>

\* Lines 153-163: sleep(250) is over; the loop condition is tested again and
\* the logs scanned; the function returns or sleeps again.
SniffPoll ==
    /\ pc = "sniff"
    /\ ~SpawnFailed
    /\ LET now == elapsed + SLEEP_MS
       IN  IF now < STARTUP_TIMEOUT_MS /\ exitCode = Null
           THEN LET dp == ScanLogs(stdoutBuf, stderrBuf, detectedPort)
                IN  /\ detectedPort' = dp
                    /\ IF Truthy(dp)
                       THEN /\ elapsed' = 0
                            /\ BeginFindBaseUrl(dp)
                            /\ lastRet' = lastRet
                       ELSE /\ elapsed' = now
                            /\ pc' = "sniff"
                            /\ UNCHANGED << scanVars, fetchVars >>
           ELSE /\ detectedPort' = detectedPort
                /\ elapsed' = 0
                /\ BeginFindBaseUrl(detectedPort)
                /\ lastRet' = lastRet
    /\ UNCHANGED << worldVars, script, usedCommand, child, spawnCount,
                    stdoutBuf, stderrBuf, exitCode, pi, t, scoreVars,
                    endVars, alive >>

\* The 'error' event of a child that could not be started is emitted with no
\* listener: the exception is uncaught and ends the harness with exit code 1,
\* before the first sleep(250) is over.
SpawnError ==
    /\ pc = "sniff"
    /\ SpawnFailed
    /\ pc' = "crashed"
    /\ harnessExit' = 1
    /\ UNCHANGED << worldVars, script, launchVars, scanVars, fetchVars, pi,
                    t, scoreVars, killLog, alive >>

(***************************************************************************)
(* main, from the return of safeFetch to the next await.                   *)
(***************************************************************************)
\* findBaseUrl's loop body, and main's branch on baseUrl when it returns.
DiscoverContinue(value, status, armed) ==
    /\ scanned' = Append(scanned, [port |-> candidates[idx],
                                   status |-> IF value = "res" THEN status ELSE 0])
    /\ IF Accepts(value, status)
       THEN \* return `http://127.0.0.1:${p}`; main calls checkTodo1(baseUrl)
            /\ baseUrl' = candidates[idx]
            /\ pc' = "probe"
            /\ pi' = 1
            /\ StartFetch(candidates[idx], 1)
            /\ UNCHANGED << candidates, idx, t >>
       ELSE IF idx < Len(candidates)
       THEN /\ idx' = idx + 1
            /\ StartFetch(candidates[idx + 1], 0)
            /\ UNCHANGED << candidates, baseUrl, pc, pi, t >>
       ELSE \* return null; main pushes "Server not reachable" to t1..t5
            /\ baseUrl' = Null
            /\ t' = [g \in Groups |-> pushPlain(t[g])]
            /\ pc' = "report"
            /\ NoFetch(armed)
            /\ UNCHANGED << candidates, idx, pi >>

\* The end of one probe: the Math.min lines when its check function ends,
\* then the next probe's safeFetch, or the scoring.
AfterProbe(tt, armed) ==
    /\ t' = ClampGroups(tt, ClampAfter(pi))
    /\ IF pi < NumProbes
       THEN /\ pi' = pi + 1
            /\ StartFetch(baseUrl, pi + 1)
            /\ pc' = pc
       ELSE /\ pi' = pi
            /\ NoFetch(armed)
            /\ pc' = "report"

\* A check function after its safeFetch returned.
ProbeContinue(value, status, armed) ==
    LET pr == Probes[pi]
    IN  IF value = "res"
        THEN /\ t' = [t EXCEPT ![pr.group] = OnResponse(@, pr, status)]
             /\ fst' = "body"
             /\ timerArmed' = armed
             /\ UNCHANGED << aborted, requests, pi, pc >>
        ELSE AfterProbe([t EXCEPT ![pr.group] = OnUnreachable(@)], armed)

\* fetch() settled: safeFetch returns and its caller goes on.  An exception
\* that leaves safeFetch leaves main too, and ends in main's catch.
Settle(cause, status) ==
    LET r == SafeFetchReturn(cause)
        armed == timerArmed /\ ~r.cleared
    IN  /\ lastRet' = [cause |-> cause, value |-> r.value, threw |-> r.threw,
                       aborted |-> aborted, armed |-> armed]
        /\ IF r.threw
           THEN /\ pc' = "crashed"
                /\ harnessExit' = 1
                /\ NoFetch(armed)
                /\ UNCHANGED << scanVars, pi, t >>
           ELSE /\ harnessExit' = harnessExit
                /\ IF pc = "discover"
                   THEN DiscoverContinue(r.value, status, armed)
                   ELSE /\ ProbeContinue(r.value, status, armed)
                        /\ UNCHANGED scanVars
        /\ UNCHANGED << worldVars, script, launchVars, scoreVars, killLog,
                        alive >>

(***************************************************************************)
(* What the network does with the request in flight.                       *)
(***************************************************************************)
\* The response headers arrive: fetch() resolves.
FetchHeaders ==
    /\ fst = "inflight"
    /\ \E st \in StatusesOf(CurrentKind, pi) : Settle("headers", st)

\* The request fails: fetch() rejects.
FetchFails ==
    /\ fst = "inflight"
    /\ MayFail(CurrentKind, pi)
    /\ Settle("error", 0)

\* setTimeout(() => controller.abort(), to) fires.
TimerFires ==
    /\ fst = "inflight"
    /\ timerArmed
    /\ MayHang(CurrentKind, pi)
    /\ aborted' = TRUE
    /\ timerArmed' = FALSE
    /\ fst' = "aborted"
    /\ UNCHANGED << worldVars, script, pc, launchVars, scanVars, lastRet,
                    requests, pi, t, scoreVars, endVars, alive >>

\* The aborted fetch() rejects.
AbortRejects ==
    /\ fst = "aborted"
    /\ Settle("abort", 0)

\* The body arrives (or the read fails): res.clone().json() settles, the
\* check function scores the shape and goes on.
BodyArrives ==
    /\ fst = "body"
    /\ \E b \in BodiesOf(CurrentKind, pi) :
          AfterProbe([t EXCEPT ![Probes[pi].group] = OnBody(@, Probes[pi], b)],
                     timerArmed)
    /\ UNCHANGED << worldVars, script, launchVars, scanVars, lastRet,
                    scoreVars, endVars, alive >>

(***************************************************************************)
(* main: scoring and the report.                                           *)
(***************************************************************************)
Score ==
    /\ p' = [g \in Groups |-> bandPoints(t[g])]
    /\ labPoints' = LabPoints(p')
    /\ subPoints' = SubPoints(late)
    /\ totalPoints' = labPoints' + subPoints'

\* Report with the exit code set from the grade.
ReportExitByGrade ==
    /\ pc = "report"
    /\ writable
    /\ Score
    /\ reportWritten' = TRUE
    /\ pc' = "cleanup"
    /\ harnessExit' = IF labPoints' = 0 THEN 1 ELSE 0
    /\ UNCHANGED << worldVars, script, launchVars, scanVars, fetchVars, pi,
                    t, killLog, alive >>

\* Lines 361-456: the points, the report, the two files written.
Report ==
    /\ pc = "report"
    /\ writable
    /\ Score
    /\ reportWritten' = TRUE
    /\ pc' = "cleanup"
    /\ UNCHANGED << worldVars, script, launchVars, scanVars, fetchVars, pi,
                    t, endVars, alive >>

\* fs.writeFileSync throws: the exception leaves main; the catch of line 470
\* logs it and sets process.exitCode = 1.
ReportThrows ==
    /\ pc = "report"
    /\ ~writable
    /\ Score
    /\ reportWritten' = FALSE
    /\ pc' = "crashed"
    /\ harnessExit' = 1
    /\ UNCHANGED << worldVars, script, launchVars, scanVars, fetchVars, pi,
                    t, killLog, alive >>

(***************************************************************************)
(* main: cleanup of the spawned process, lines 458-468.                    *)
(***************************************************************************)
Attempt(how, ok) == [how |-> how, ok |-> ok]

\* Cleanup with the process-id signal sent only when the group signal failed
\* to reach a running process and the child is still running.
CleanupNoFallback ==
    /\ pc = "cleanup"
    /\ IF child = << >> \/ SpawnFailed
       THEN /\ killLog' = killLog
            /\ alive' = alive
       ELSE IF platform = "win32"
       THEN /\ killLog' = Append(killLog, Attempt("taskkill", TRUE))
            /\ alive' = {}
       ELSE LET group == GroupMembers(alive)
                rest == alive \ group
            IN  /\ killLog' = killLog
                       \o << Attempt("group", group # {}) >>
                       \o (IF "child" \in rest
                           THEN << Attempt("pid", TRUE) >> ELSE << >>)
                /\ alive' = rest \ {"child"}
    /\ pc' = "done"
    /\ UNCHANGED << worldVars, script, launchVars, scanVars, fetchVars, pi,
                    t, scoreVars, harnessExit >>

Cleanup ==
    /\ pc = "cleanup"
    /\ IF child = << >> \/ SpawnFailed
       THEN /\ killLog' = killLog
            /\ alive' = alive
       ELSE IF platform = "win32"
       THEN /\ killLog' = Append(killLog, Attempt("taskkill", TRUE))
            /\ alive' = {}
       ELSE LET group == GroupMembers(alive)
                rest == alive \ group
            IN  /\ killLog' = killLog
                       \o << Attempt("group", group # {}),
                             Attempt("pid", "child" \in rest) >>
                /\ alive' = rest \ {"child"}
    /\ pc' = "done"
    /\ UNCHANGED << worldVars, script, launchVars, scanVars, fetchVars, pi,
                    t, scoreVars, harnessExit >>

(***************************************************************************)
(* Initial states: the world is one of a family W, the harness has just    *)
(* been started.                                                           *)
(***************************************************************************)
World(f, pk, pl, lt, wr, ex, sc, sv, np) ==
    [files |-> f, pkg |-> pk, platform |-> pl, late |-> lt, writable |-> wr,
     exits |-> ex, script |-> sc, servers |-> sv, npm |-> np]

InitIn(W) ==
    /\ \E w \in W :
          /\ files = w.files
          /\ pkg = w.pkg
          /\ platform = w.platform
          /\ late = w.late
          /\ writable = w.writable
          /\ exits = w.exits
          /\ script = w.script
          /\ servers = w.servers
          /\ npm = w.npm
    /\ pc = "start"
    /\ usedCommand = << >>
    /\ child = << >>
    /\ spawnCount = 0
    /\ stdoutBuf = << >>
    /\ stderrBuf = << >>
    /\ exitCode = Null
    /\ elapsed = 0
    /\ detectedPort = Null
    /\ candidates = << >>
    /\ idx = 0
    /\ baseUrl = Null
    /\ fst = "idle"
    /\ timerArmed = FALSE
    /\ aborted = FALSE
    /\ lastRet = [cause |-> "none", value |-> "none", threw |-> FALSE,
                  aborted |-> FALSE, armed |-> FALSE]
    /\ requests = << >>
    /\ scanned = << >>
    /\ pi = 0
    /\ t = [g \in Groups |-> makeTodoScore]
    /\ p = [g \in Groups |-> 0]
    /\ labPoints = 0
    /\ subPoints = 0
    /\ totalPoints = 0
    /\ reportWritten = FALSE
    /\ killLog = << >>
    /\ alive = {}
    /\ harnessExit = 0

Next ==
    \/ Launch
    \/ ChildPrints
    \/ ChildExits
    \/ SniffPoll
    \/ SpawnError
    \/ FetchHeaders
    \/ FetchFails
    \/ TimerFires
    \/ AbortRejects
    \/ BodyArrives
    \/ Report
    \/ ReportThrows
    \/ Cleanup

(***************************************************************************)
(* Families of worlds.                                                     *)
(***************************************************************************)
Out(stream, chunk) == [stream |-> stream, chunk |-> chunk]

UrlChunk    == Chunk(1, << 3, 0, 0, 1 >>)
ListenChunk == Chunk(2, << 8, 0, 8, 0 >>)
PortChunk   == Chunk(3, << 0, 0 >>)
NoiseChunk  == Chunk(0, << >>)

NoServers == [q \in {} |-> "none"]

\* Sequences over S of length at most n.
RECURSIVE SeqsUpTo(_, _)
SeqsUpTo(S, n) ==
    IF n = 0 THEN {<< >>}
    ELSE LET shorter == SeqsUpTo(S, n - 1)
         IN  shorter \cup {Append(q, x) : q \in {r \in shorter : Len(r) = n - 1},
                                          x \in S}

OutputEvents ==
    {Out(st, c) : st \in {"stdout", "stderr"},
                  c \in {UrlChunk, ListenChunk, PortChunk, NoiseChunk}}

FixedKinds == {"app", "foreign", "nocontent", "moved", "broken", "silent"}

\* Every file system and manifest; nothing listens, or an unrelated server
\* listens on the first port of the scan range.
LaunchWorlds ==
    {World(f, pk, pl, FALSE, TRUE, FALSE, << >>, sv, TRUE) :
        f \in SUBSET Range(ENTRY_CANDIDATES),
        pk \in {"absent", "invalid", "nostart", "start"},
        pl \in {"posix", "win32"},
        sv \in {NoServers, (3000 :> "foreign")}}

\* Every output of the child, up to MaxChunks chunks; the child may exit.
SniffWorlds ==
    {World({"server.js"}, "absent", "posix", FALSE, TRUE, ex, sc, sv, TRUE) :
        ex \in BOOLEAN,
        sc \in SeqsUpTo(OutputEvents, MaxChunks),
        sv \in {NoServers, (3001 :> "app"), (8080 :> "app")}}

\* Up to two servers on the sniffed ports and on the ends of the scan range.
ScanWorlds ==
    LET ports == {SCAN_BASE, SCAN_BASE + 1, SCAN_BASE + SCAN_LEN - 1, 8080}
        one == {(q :> k) : q \in ports, k \in FixedKinds}
        two == {(q1 :> k1) @@ (q2 :> k2) :
                   q1 \in ports, q2 \in ports, k1 \in FixedKinds, k2 \in FixedKinds}
    IN  {World({"app.js"}, "start", "posix", FALSE, TRUE, FALSE, sc, sv, TRUE) :
            sc \in {<< >>, << Out("stdout", UrlChunk) >>,
                    << Out("stderr", ListenChunk) >>},
            sv \in {NoServers} \cup one \cup two}

\* A server that answers each probe in any way, one that stalls, and one
\* that validates nothing.
ProbeWorlds ==
    {World({"server.js"}, "start", "posix", FALSE, TRUE, FALSE, << >>,
           (3001 :> k), TRUE) : k \in {"flaky", "stall", "lenient"}}

\* The ways a run ends: the platform, the deadline, the report files, the
\* child gone or not, launched directly or through npm (which may not be
\* there to start), or not at all.
EndWorlds ==
    {World(f, "start", pl, lt, wr, ex, << >>, sv, np) :
        f \in {{}, {"index.js"}},
        pl \in {"posix", "win32"},
        lt \in BOOLEAN,
        wr \in BOOLEAN,
        ex \in BOOLEAN,
        sv \in {NoServers, (3000 :> "app"), (3000 :> "foreign")},
        np \in BOOLEAN}
      \cup
    {World({}, "absent", "posix", lt, wr, FALSE, << >>, sv, TRUE) :
        lt \in BOOLEAN,
        wr \in BOOLEAN,
        sv \in {NoServers, (3000 :> "app")}}

Worlds == LaunchWorlds \cup SniffWorlds \cup ScanWorlds \cup ProbeWorlds
              \cup EndWorlds

Init == InitIn(Worlds)

Spec == Init /\ [][Next]_vars

(***************************************************************************)
(* Properties.                                                             *)
(***************************************************************************)
Ended == pc \in {"done", "crashed"}
Spawned == child # << >> /\ ~SpawnFailed

\* The discovery requests, and the ports they went to, in order.
ScanRequests == SelectSeq(requests, LAMBDA r : r.probe = 0)
ProbeRequests == SelectSeq(requests, LAMBDA r : r.probe # 0)
ScanPorts == [i \in DOMAIN ScanRequests |-> ScanRequests[i].port]

\* The raw sum of the five group totals.
RawSum == p[1] + p[2] + p[3] + p[4] + p[5]

(* C1: in every run that launched a child, the harness attempts to         *)
(* terminate it before it finishes: no end state has a spawned child and   *)
(* no termination attempt.                                                 *)
C1_TerminationAlwaysAttempted ==
    (Ended /\ Spawned) => killLog # << >>

(* C2: every wait of the harness is time-bounded, so the run reaches its   *)
(* end whatever the target does: the harness is never in a state that is   *)
(* not an end of the run and from which nothing can resume it.             *)
C2_RunReachesItsEnd ==
    Ended \/ ENABLED Next

(* C3: safeFetch never throws; a failed or timed-out request returns null; *)
(* the request was aborted before a timeout returned null; the timer is    *)
(* cleared whenever safeFetch has returned.                                *)
C3_SafeFetchNeverThrows ==
    /\ ~lastRet.threw
    /\ lastRet.cause \in {"error", "abort"} => lastRet.value = "null"
    /\ lastRet.cause = "headers" => lastRet.value = "res"
    /\ lastRet.cause = "abort" => lastRet.aborted
    /\ ~lastRet.armed
    /\ fst \in {"idle", "body"} => ~timerArmed
    /\ pc = "crashed" => (~writable \/ SpawnFailed)

C3_Witness ==
    /\ pc = "done"
    /\ lastRet.cause = "abort"
    /\ lastRet.value = "null"
    /\ \E i \in DOMAIN scanned : scanned[i].status = 0

(* C4: when no launch strategy matches, no child is spawned, no port is    *)
(* probed and the run records zero lab credit, whatever listens on the     *)
(* scan range.                                                             *)
C4_NoEntrySkipsDiscovery ==
    (pc = "done" /\ usedCommand = NoEntryCommand) =>
        /\ spawnCount = 0
        /\ requests = << >>
        /\ labPoints = 0

(* C5: when no candidate port gives an accepted answer, findBaseUrl        *)
(* returns null, no probe request is issued, every group scores zero and   *)
(* holds the not-reachable note, the lab total is 0, and the run goes on   *)
(* to the report and the cleanup.                                          *)
Acceptable(status) == (200 <= status /\ status <= 299) \/ status = 404

NoneAccepted ==
    /\ pc \notin {"start", "sniff", "discover"}
    /\ scanned # << >>
    /\ \A i \in DOMAIN scanned : ~Acceptable(scanned[i].status)

C5_NullBaseUrl ==
    NoneAccepted =>
        /\ baseUrl = Null
        /\ ProbeRequests = << >>
        /\ \A g \in Groups :
              /\ t[g].completeness = 0 /\ t[g].correctness = 0
              /\ t[g].quality = 0
              /\ t[g].notes = << "PLAIN" >>
        /\ pc \in {"report", "cleanup", "done", "crashed"}
        /\ pc \in {"cleanup", "done"} =>
              (reportWritten /\ labPoints = 0 /\ \A g \in Groups : p[g] = 0)
        /\ pc = "done" /\ Spawned => killLog # << >>
        /\ pc = "crashed" => ~writable

C5_Witness ==
    /\ NoneAccepted
    /\ pc = "done"
    /\ Spawned
    /\ killLog # << >>
    /\ \E i \in DOMAIN scanned : scanned[i].status = 500

(* C6: the reported lab total is 0 when every group total is 0, exactly 60 *)
(* when some group total is nonzero and the raw sum is below 60, and the   *)
(* raw sum when it is 60 or more.                                          *)
C6_LabTotal ==
    pc \in {"cleanup", "done"} =>
        /\ (\A g \in Groups : p[g] = 0) => labPoints = 0
        /\ ((\E g \in Groups : p[g] # 0) /\ RawSum < 60) => labPoints = 60
        /\ RawSum >= 60 => labPoints = RawSum

C6_Witness ==
    /\ pc = "done"
    /\ RawSum = 42
    /\ labPoints = 60

(* C7: each group's completeness, correctness and quality lie in [0,8],    *)
(* [0,4] and [0,4]; every group total is at most 16; the lab total is at   *)
(* most 80.                                                                *)
C7_Bands ==
    /\ \A g \in Groups :
          /\ t[g].completeness \in 0..8
          /\ t[g].correctness \in 0..4
          /\ t[g].quality \in 0..4
          /\ p[g] \in 0..16
    /\ labPoints \in 0..80

C7_Witness ==
    /\ pc = "done"
    /\ \A g \in Groups :
          t[g].completeness = 8 /\ t[g].correctness = 4 /\ t[g].quality = 4
    /\ labPoints = 80

(* C8 as stated: a candidate is accepted only when its status is exactly   *)
(* 200 or exactly 404.                                                     *)
C8_AcceptsOnly200Or404 ==
    baseUrl # Null => scanned[Len(scanned)].status \in {200, 404}

(* C8, amended: a candidate is accepted exactly when its fetch is          *)
(* reachable and its status is in 200..299 or is 404; a candidate with no  *)
(* answer or any other status is passed over and the scan goes on.         *)
C8_AcceptsOkOr404 ==
    /\ baseUrl # Null =>
          /\ scanned # << >>
          /\ scanned[Len(scanned)].port = baseUrl
          /\ Acceptable(scanned[Len(scanned)].status)
    /\ \A i \in DOMAIN scanned :
          IF Acceptable(scanned[i].status)
          THEN i = Len(scanned) /\ baseUrl = scanned[i].port
          ELSE \/ i < Len(scanned)
               \/ pc = "discover" /\ Len(ScanRequests) = i + 1
               \/ baseUrl = Null /\ i = Len(candidates)

C8_Witness ==
    /\ pc = "done"
    /\ baseUrl # Null
    /\ scanned[Len(scanned)].status = 204
    /\ \E i \in DOMAIN scanned : scanned[i].status = 500

(* C9: findBaseUrl fetches the sniffed port first when there is one, then  *)
(* 3000..3023 ascending without the sniffed port; no port twice; the       *)
(* result is the first accepted candidate and nothing is fetched after it. *)
RECURSIVE Ascending(_)
Ascending(S) ==
    IF S = {} THEN << >>
    ELSE LET m == CHOOSE x \in S : \A y \in S : x <= y
         IN  << m >> \o Ascending(S \ {m})

AscendingScan == Ascending(3000..3023)

ExpectedOrder(sniffed) ==
    IF sniffed # Null /\ sniffed # 0
    THEN << sniffed >> \o SelectSeq(AscendingScan, LAMBDA q : q # sniffed)
    ELSE AscendingScan

C9_ScanOrder ==
    pc \notin {"start", "sniff"} =>
        LET E == ExpectedOrder(detectedPort)
            ports == ScanPorts
            n == Len(ports)
            lastScan == Len(ScanRequests)
        IN  /\ n <= Len(E)
            /\ ports = SubSeq(E, 1, n)
            /\ \A i, j \in 1..n : i # j => ports[i] # ports[j]
            /\ \A i \in DOMAIN scanned : scanned[i].port = E[i]
            /\ \A i \in DOMAIN scanned :
                  Acceptable(scanned[i].status) =>
                      /\ baseUrl = scanned[i].port
                      /\ n = i
            /\ baseUrl # Null =>
                  /\ n = Len(scanned)
                  /\ Acceptable(scanned[n].status)
            /\ (pc # "discover" /\ baseUrl = Null /\ scanned # << >>) =>
                  ports = E
            /\ \A i \in DOMAIN requests : requests[i].probe = 0 <=> i <= lastScan

C9_Witness ==
    /\ pc = "done"
    /\ detectedPort = 3001
    /\ baseUrl = 3023
    /\ ScanPorts[1] = 3001
    /\ ScanPorts[2] = 3000
    /\ ScanPorts[3] = 3002
    /\ Len(ScanPorts) = 24

(* C10: the launch strategy is the first that matches: the earliest        *)
(* existing entry file of the ranked list is run directly, also when a     *)
(* start script is declared; otherwise a declared start script is run      *)
(* with the package manager; otherwise no entry is reported.  One child is *)
(* spawned when a strategy matches, none otherwise, and usedCommand names  *)
(* the strategy.                                                           *)
EarliestEntry(i) ==
    /\ ENTRY_CANDIDATES[i] \in files
    /\ \A j \in 1..(i - 1) : ENTRY_CANDIDATES[j] \notin files

ProbeSettles ==
    /\ pc = "probe"
    /\ (fst = "inflight" /\ fst' # "aborted") \/ fst = "aborted"

C11_CompletenessByReachability ==
    [][/\ \A g \in Groups : t'[g].completeness >= t[g].completeness
       /\ ProbeSettles =>
             \A g \in Groups :
                t'[g].completeness =
                    t[g].completeness
                      + (IF g = Probes[pi].group /\ lastRet'.value = "res"
                         THEN Probes[pi].comp ELSE 0)
       /\ fst = "body" =>
             \A g \in Groups : t'[g].completeness = t[g].completeness]_vars

C11_Witness ==
    /\ pc = "done"
    /\ \E i \in DOMAIN scanned : scanned[i].status = 404
    /\ \A g \in Groups :
          /\ t[g].completeness = 8
          /\ t[g].correctness = 0
          /\ t[g].quality = 0

(* C12: when the success case of the echo group answers 200 with JSON      *)
(* having ok:true, name, age and a string msg, and the missing-parameter   *)
(* case answers 400 with JSON having ok:false and a string error, the echo *)
(* group scores 8 + 4 + 4 = 16; each case adds 4 completeness when         *)
(* reachable, 2 correctness for its status and 2 quality for its shape: a  *)
(* target that answers the first case right has 4/2/2 after it, and one    *)
(* that answers the second case with 200 and no error ends at 8/2/2.       *)
EchoBands(c, r, q) ==
    /\ t[2].completeness = c
    /\ t[2].correctness = r
    /\ t[2].quality = q

EchoSuccessRight(k) ==
    /\ StatusesOf(k, 2) = {200}
    /\ BodiesOf(k, 2) # {}
    /\ \A b \in BodiesOf(k, 2) :
          /\ b.parse = "ok" /\ b.kind = "object"
          /\ "ok" \in DOMAIN b.obj /\ b.obj["ok"] = [type |-> "boolean", val |-> "true"]
          /\ "name" \in DOMAIN b.obj /\ "age" \in DOMAIN b.obj
          /\ "msg" \in DOMAIN b.obj /\ b.obj["msg"].type = "string"

EchoMissingRight(k) ==
    /\ StatusesOf(k, 3) = {400}
    /\ BodiesOf(k, 3) # {}
    /\ \A b \in BodiesOf(k, 3) :
          /\ b.parse = "ok" /\ b.kind = "object"
          /\ "ok" \in DOMAIN b.obj /\ b.obj["ok"] = [type |-> "boolean", val |-> "false"]
          /\ "error" \in DOMAIN b.obj /\ b.obj["error"].type = "string"

EchoMissingLenient(k) ==
    /\ StatusesOf(k, 3) = {200}
    /\ BodiesOf(k, 3) # {}
    /\ \A b \in BodiesOf(k, 3) : "error" \notin DOMAIN b.obj

AfterEchoGroup == pi > 3 \/ pc \in {"report", "cleanup", "done", "crashed"}

C12_EchoGroup ==
    (baseUrl # Null /\ EchoSuccessRight(KindOf(baseUrl))) =>
        /\ (pi = 3 /\ fst = "inflight") => EchoBands(4, 2, 2)
        /\ (AfterEchoGroup /\ EchoMissingRight(KindOf(baseUrl))) =>
              /\ EchoBands(8, 4, 4)
              /\ pc \in {"cleanup", "done"} => p[2] = 16
        /\ (AfterEchoGroup /\ EchoMissingLenient(KindOf(baseUrl))) =>
              /\ EchoBands(8, 2, 2)
              /\ pc \in {"cleanup", "done"} => p[2] = 12

C12_Witness ==
    /\ pc = "done"
    /\ baseUrl # Null
    /\ EchoSuccessRight(KindOf(baseUrl))
    /\ EchoMissingRight(KindOf(baseUrl))
    /\ p[2] = 16

(* C13: at the end of a run that spawned a child and went through its      *)
(* cleanup, the child and every process of its group have been signalled:  *)
(* no process started by the launch is still running.                      *)
C13_NoSurvivor ==
    (pc = "done" /\ Spawned) => alive = {}

(* C14 as stated: the cleanup of a spawned child attempts the process-     *)
(* group signal first and the direct process-id signal second, on every    *)
(* run.                                                                    *)
C14_GroupThenPid ==
    (pc = "done" /\ Spawned) =>
        /\ Len(killLog) = 2
        /\ killLog[1].how = "group"
        /\ killLog[2].how = "pid"

(* C14, amended: on a platform other than win32 the cleanup attempts the   *)
(* process-group signal first and the process-id signal second, the second *)
(* whether the first succeeded or failed; on win32 it starts taskkill once *)
(* instead and sends no signal; a failed attempt never makes the run end   *)
(* as a crash; with no process launched nothing is attempted.              *)
C14_CleanupAttempts ==
    /\ pc = "done" =>
          /\ harnessExit = 0
          /\ ~Spawned => killLog = << >>
          /\ (Spawned /\ platform # "win32") =>
                /\ Len(killLog) = 2
                /\ killLog[1].how = "group"
                /\ killLog[2].how = "pid"
          /\ (Spawned /\ platform = "win32") =>
                /\ Len(killLog) = 1
                /\ killLog[1].how = "taskkill"
    /\ pc # "done" => killLog = << >>

C14_Witness ==
    /\ pc = "done"
    /\ Spawned
    /\ exitCode # Null
    /\ Len(killLog) = 2
    /\ ~killLog[1].ok
    /\ ~killLog[2].ok
    /\ harnessExit = 0

(* C15 as stated: the sniffing loop stops at the first poll at which a     *)
(* port pattern matches the accumulated output, the child has exited, or   *)
(* the startup budget has elapsed, and only then.                          *)
Logs == stdoutBuf \o stderrBuf

PollStep == pc = "sniff" /\ (elapsed' # elapsed \/ pc' = "discover")

PatternMatches == \E i \in DOMAIN Logs : Logs[i].pat \in {1, 2, 3}

BudgetElapsed == elapsed + 250 >= 12000

ChildGone == "child" \notin alive

C15_StopsAtFirstMatch ==
    [][PollStep =>
          (pc' # "sniff" <=>
              (PatternMatches \/ ChildGone \/ BudgetElapsed))]_vars

(* C15, amended: the loop makes at most 48 polls of 250 ms; it stops at    *)
(* the first poll at which the child has exited with an exit code, the     *)
(* 12 s budget has elapsed, or the first pattern that matches captured a   *)
(* non-zero number, and only then: a captured number of 0 ("00") does not  *)
(* stop it, and neither does a child ended by a signal.                    *)
FirstCapture(k) ==
    LET hits == {i \in DOMAIN Logs : Logs[i].pat = k}
    IN  Logs[CHOOSE i \in hits : \A j \in hits : i <= j].digits

NonZeroPortMatches ==
    \E k \in {1, 2, 3} :
        /\ \E i \in DOMAIN Logs : Logs[i].pat = k
        /\ \A j \in 1..(k - 1) : \A i \in DOMAIN Logs : Logs[i].pat # j
        /\ \E n \in DOMAIN FirstCapture(k) : FirstCapture(k)[n] # 0

C15_SniffLoopBounded ==
    /\ [](pc = "sniff" => (elapsed \in 0..11999 /\ elapsed % 250 = 0))
    /\ [][PollStep =>
             (pc' # "sniff" <=>
                 (NonZeroPortMatches \/ exitCode # Null \/ BudgetElapsed))]_vars

C15_Witness ==
    /\ pc = "done"
    /\ detectedPort = 0
    /\ exitCode = Null
    /\ ChildGone
    /\ PatternMatches

(* C16: once startStudentApp has returned, whenever the accumulated output *)
(* contains a match of some port pattern, the sniffed port is the number   *)
(* captured by the first pattern, in the fixed order, that matches; also   *)
(* when the child printed its port and exited before the first poll.       *)
FirstMatchingPattern ==
    CHOOSE k \in {1, 2, 3} :
        /\ \E i \in DOMAIN Logs : Logs[i].pat = k
        /\ \A j \in 1..(k - 1) : \A i \in DOMAIN Logs : Logs[i].pat # j

C16_SniffedIsFirstCapture ==
    (pc \notin {"start", "sniff"} /\ PatternMatches) =>
        detectedPort = Number(FirstCapture(FirstMatchingPattern))

(* C17: the score of a probe group depends only on the responses to its    *)
(* own probes: a step that handles another group's probe, or no probe,     *)
(* leaves the group's three sub-scores as they are; a step that handles    *)
(* one of its own probes changes them by an amount fixed by that probe and *)
(* its response alone (the probe's completeness share and, or not, its     *)
(* correctness share when the response arrives; its quality share, or      *)
(* nothing, when the body read settles); and the group total is the sum of *)
(* the group's own three sub-scores.                                       *)
Bands(s) == << s.completeness, s.correctness, s.quality >>

OwnProbe(g) == pc = "probe" /\ Probes[pi].group = g

C17_GroupIndependence ==
    /\ [][\A g \in Groups :
             LET b == Bands(t[g])
                 pr == Probes[pi]
             IN  IF OwnProbe(g)
                 THEN \/ Bands(t'[g]) = b
                      \/ /\ fst = "inflight"
                         /\ lastRet'.value = "res"
                         /\ \E r \in {0, pr.corr} :
                               Bands(t'[g]) = << b[1] + pr.comp, b[2] + r, b[3] >>
                      \/ /\ fst = "body"
                         /\ Bands(t'[g]) = << b[1], b[2], b[3] + pr.qual >>
                 ELSE Bands(t'[g]) = b]_vars
    /\ [](pc \in {"cleanup", "done"} =>
             \A g \in Groups :
                p[g] = t[g].completeness + t[g].correctness + t[g].quality)

C17_Witness ==
    /\ pc = "done"
    /\ baseUrl # Null
    /\ Bands(t[4]) = << 8, 4, 4 >>
    /\ Bands(t[5]) = << 0, 0, 0 >>
    /\ Bands(t[1]) = << 8, 0, 4 >>

(* C18 as stated: the exit code of the harness is nonzero only when an     *)
(* exception escaped the main routine (here: the report write threw).      *)
MainThrew == pc = "crashed" /\ ~SpawnFailed /\ ~writable

SomeProbeAnswered ==
    \E g \in Groups : \E n \in DOMAIN t[g].notes : t[g].notes[n] \in {"OK", "WARN"}

C19_ZeroOrAtLeastSixty ==
    /\ labPoints = 0 \/ (60 <= labPoints /\ labPoints <= 80)
    /\ (pc \in {"cleanup", "done"} /\ baseUrl # Null /\ SomeProbeAnswered) =>
          labPoints >= 60
    /\ (pc \in {"cleanup", "done"} /\ labPoints = 0) =>
          \A g \in Groups : \A n \in DOMAIN t[g].notes : t[g].notes[n] \in {"X", "PLAIN"}

C19_Witness ==
    /\ pc = "done"
    /\ baseUrl # Null
    /\ SomeProbeAnswered
    /\ RawSum = 4
    /\ labPoints = 60

(* C20: the last-resort strategy never launches the child: whenever        *)
(* server.js exists the ranked entry list selects it (it is the first name *)
(* of the list), so the launch goes through the entry branch and           *)
(* usedCommand "node server.js" is never the last-resort branch's.         *)
C20_LastResortNeverTaken ==
    pc # "start" =>
        /\ LaunchPlan(files, pkg, platform).branch # "lastResort"
        /\ LaunchPlan(files, pkg, platform).used = usedCommand
        /\ "server.js" \in files =>
              /\ ENTRY_CANDIDATES[1] = "server.js"
              /\ FindEntry(files) = "server.js"
              /\ LaunchPlan(files, pkg, platform).branch = "entry"
              /\ usedCommand = << "node", "server.js" >>
        /\ usedCommand = << "node", "server.js" >> => "server.js" \in files

C20_Witness ==
    /\ pc = "done"
    /\ files = {"server.js", "src/index.js"}
    /\ pkg = "absent"
    /\ usedCommand = << "node", "server.js" >>
    /\ spawnCount = 1
=============================================================================
